---- MODULE Spec2Model ----
(***************************************************************************)
(* Model of tradingagents/agents/portfolio_batch.py: the batch analysis    *)
(* engine with retry (RetryableTask, BatchAnalysisState, classify_error,   *)
(* analyze_ticker_safe, run_batch_analysis_with_retry and its two round    *)
(* executors).                                                             *)
(*                                                                         *)
(* Time is in whole seconds.  An error message is modelled by the set of   *)
(* text fragments it contains, each fragment with its letter case, so that *)
(* str.lower() and the substring test `kw in text` are computed and a      *)
(* case-sensitive test differs from a case-insensitive one.                *)
(***************************************************************************)
EXTENDS Integers, Sequences, FiniteSets, TLC

\* ------------------------------------------------------------------ bounds
MaxTickers == 2          \* longest input list; also the number of ticker names
MaxWorkers == 4          \* largest configured max_workers
MaxClock == 50           \* analysis latency stops accumulating at this clock value
TickLen == 50            \* seconds of latency added by one Tick
ShortDeadline == 60      \* a max_total_time shorter than the first backoff
JitterRes == 3           \* random.random() takes the values r / JitterRes
MaxThrottles == 4        \* throttling errors the remote service raises in one run
MaxUnitAttempt == 4      \* largest attempt value of a task built directly
MaxQueue == 3            \* most tasks of a retry queue built directly
MaxRequeues == 3         \* throttled retries of the tasks of such a queue

\* ------------------------------------------------------- program constants
BaseDelay == 30          \* base_delay = 30 * (2 ** self.attempt)
JitterDiv == 4           \* jitter = base_delay * 0.25 * (...)
MinDelay == 15           \* delay = max(15, ...)
AttemptLimit == 3        \* self.attempt < 3
SleepCap == 10           \* time.sleep(min(wait_time, 10))
DefaultMaxTotalTime == 1800

\* ------------------------------------------------------------------- text
\* Fragments an error text may contain.  No fragment contains another.
Fragments ==
  { "ThrottlingException", "throttlingexception", "Too many tokens",
    "too many tokens", "timeout", "Connection", "Invalid", "not found",
    "Permission", "access", "weird" }

\* str.lower() on one fragment
LowerFragment(f) ==
  CASE f = "ThrottlingException" -> "throttlingexception"
    [] f = "Too many tokens" -> "too many tokens"
    [] f = "Connection" -> "connection"
    [] f = "Invalid" -> "invalid"
    [] f = "Permission" -> "permission"
    [] OTHER -> f

\* error_msg.lower()
Lower(msg) == { LowerFragment(f) : f \in msg }

\* `kw in text`
Contains(text, kw) == kw \in text

Categories == { "throttling", "network", "data", "auth", "unknown" }

classify_error_swapped(error_msg) ==
  LET error_lower == Lower(error_msg) IN
  IF Contains(error_lower, "timeout") \/ Contains(error_lower, "connection")
    THEN "network"
  ELSE IF Contains(error_lower, "throttlingexception")
          \/ Contains(error_lower, "too many tokens")
    THEN "throttling"
  ELSE IF Contains(error_lower, "invalid") \/ Contains(error_lower, "not found")
    THEN "data"
  ELSE IF Contains(error_lower, "permission") \/ Contains(error_lower, "access")
    THEN "auth"
  ELSE "unknown"

classify_error(error_msg) ==
  LET error_lower == Lower(error_msg) IN
  IF Contains(error_lower, "throttlingexception")
     \/ Contains(error_lower, "too many tokens")
    THEN "throttling"
  ELSE IF Contains(error_lower, "timeout") \/ Contains(error_lower, "connection")
    THEN "network"
  ELSE IF Contains(error_lower, "invalid") \/ Contains(error_lower, "not found")
    THEN "data"
  ELSE IF Contains(error_lower, "permission") \/ Contains(error_lower, "access")
    THEN "auth"
  ELSE "unknown"

\* ---------------------------------------------------------- RetryableTask
Max(a, b) == IF a >= b THEN a ELSE b
Min(a, b) == IF a <= b THEN a ELSE b

RECURSIVE Pow2(_)
Pow2(n) == IF n <= 0 THEN 1 ELSE 2 * Pow2(n - 1)

\* RetryableTask(ticker=ticker, date=date); `item` is the object's identity
\* (the input position it was created for), not a dataclass field.
NewTask(ticker, item) ==
  [ ticker |-> ticker, attempt |-> 0, last_error |-> {},
    next_retry_time |-> 0, item |-> item ]

should_retry_le(task) ==
  task.attempt <= AttemptLimit /\ Contains(task.last_error, "ThrottlingException")

should_retry(task) ==
  task.attempt < AttemptLimit /\ Contains(task.last_error, "ThrottlingException")

\* random.random() = r / JitterRes, r in 0 .. JitterRes-1; the delay is kept
\* in whole seconds (floor).
Randoms == 0 .. (JitterRes - 1)
\* the two extreme draws, used for the tasks of a batch run
BatchRandoms == { 0, JitterRes - 1 }

calculate_next_retry(task, clock, r) ==
  LET base_delay == BaseDelay * Pow2(task.attempt)
      jitter == (base_delay * (2 * r - JitterRes)) \div (JitterDiv * JitterRes)
      delay == Max(MinDelay, base_delay + jitter)
  IN clock + delay

increment_attempt_noinc(task, error_msg, clock, r) ==
  LET t1 == [task EXCEPT !.last_error = error_msg]
  IN [t1 EXCEPT !.next_retry_time = calculate_next_retry(t1, clock, r)]

increment_attempt(task, error_msg, clock, r) ==
  LET t1 == [task EXCEPT !.attempt = @ + 1, !.last_error = error_msg]
  IN [t1 EXCEPT !.next_retry_time = calculate_next_retry(t1, clock, r)]

\* ------------------------------------------------------ BatchAnalysisState
EmptyDict == [ x \in {} |-> 0 ]

\* d[k] = v
Put(d, k, v) == [ x \in (DOMAIN d) \cup {k} |-> IF x = k THEN v ELSE d[x] ]

\* the dataclass's generated __eq__: all declared fields (not the identity)
TaskEq(a, b) ==
  /\ a.ticker = b.ticker
  /\ a.attempt = b.attempt
  /\ a.last_error = b.last_error
  /\ a.next_retry_time = b.next_retry_time

\* list.remove(task): drops the first element equal to task
RECURSIVE ListRemove(_, _)
ListRemove(q, task) ==
  IF q = <<>> THEN <<>>
  ELSE IF TaskEq(Head(q), task) THEN Tail(q)
  ELSE <<Head(q)>> \o ListRemove(Tail(q), task)

RECURSIVE RemoveAll(_, _)
RemoveAll(q, ready) ==
  IF ready = <<>> THEN q ELSE RemoveAll(ListRemove(q, Head(ready)), Tail(ready))

RECURSIVE SelectReady(_, _)
SelectReady(q, current_time) ==
  IF q = <<>> THEN <<>>
  ELSE IF Head(q).next_retry_time <= current_time
    THEN <<Head(q)>> \o SelectReady(Tail(q), current_time)
  ELSE SelectReady(Tail(q), current_time)

get_ready_retries_all(q, current_time) ==
  [ ready |-> q, queue |-> RemoveAll(q, SelectReady(q, current_time)) ]

get_ready_retries_keep(q, current_time) ==
  [ ready |-> SelectReady(q, current_time), queue |-> q ]

\* get_ready_retries: the ready tasks, and the queue after their removal
get_ready_retries(q, current_time) ==
  LET ready_tasks == SelectReady(q, current_time)
  IN [ ready |-> ready_tasks, queue |-> RemoveAll(q, ready_tasks) ]

is_complete_of_gt(succ, fail, total) ==
  Cardinality(DOMAIN succ) + Cardinality(DOMAIN fail) > total

is_complete_of(succ, fail, total) ==
  Cardinality(DOMAIN succ) + Cardinality(DOMAIN fail) >= total

FailureRecord(ticker, error) ==
  [ ticker |-> ticker, status |-> "error", error |-> error ]

\* ---------------------------------------------------- analyze_ticker_safe
\* What graph.propagate does for one call: it returns, or raises with a text.
BatchMessages ==
  { {"ThrottlingException", "Too many tokens"},   \* "ThrottlingException: Too many tokens"
    {"too many tokens"},                          \* "too many tokens, please wait"
    {"Invalid"} }                                 \* "Invalid ticker symbol"

Returned == [ kind |-> "return", msg |-> {} ]
Raised(m) == [ kind |-> "raise", msg |-> m ]
Outcomes == { Returned } \cup { Raised(m) : m \in BatchMessages }

analyze_ticker_safe_data(ticker, outcome) ==
  IF outcome.kind = "return"
    THEN [ ticker |-> ticker, status |-> "success" ]
  ELSE LET error_msg == outcome.msg
           error_classification == classify_error(error_msg)
       IN [ ticker |-> ticker, status |-> "error", error |-> error_msg,
            error_type |-> error_classification,
            retryable |-> (error_classification = "data") ]

analyze_ticker_safe(ticker, outcome) ==
  IF outcome.kind = "return"
    THEN [ ticker |-> ticker, status |-> "success" ]
  ELSE LET error_msg == outcome.msg
           error_classification == classify_error(error_msg)
       IN [ ticker |-> ticker, status |-> "error", error |-> error_msg,
            error_type |-> error_classification,
            retryable |-> (error_classification = "throttling") ]

GetRetryable_any(result) == result.status = "error"

\* result.get("retryable", False)
GetRetryable(result) ==
  IF "retryable" \in DOMAIN result THEN result.retryable ELSE FALSE

NoResult == [ status |-> "none" ]

\* no call of analyze_ticker_safe made yet
NoCall == [ ticker |-> 0, outcome |-> Returned ]

\* ------------------------------------------------------------------ state
VARIABLES
  \* inputs of run_batch_analysis_with_retry, and the wall clock
  tickers, max_workers, max_total_time, now,
  \* BatchAnalysisState
  successful, failed, retry_queue, total_tickers, completed_count,
  \* locals of run_batch_analysis_with_retry
  pc, start_time, current_workers, retry_round, ready_retries, sleep_for,
  fin_idx, result,
  \* one round: the executor's futures, its worker limit, as_completed
  kind, workers, futs, asc_early, asc_order,
  \* history: outcomes of each input position's invocations, worker count
  \* of each round run, elapsed time at which each round began and ended
  \* (with the number of its calls not yet collected), dispositions the
  \* latest round gave to each of its futures, finished calls of the round
  \* not yet collected in the order they finished
  hist, round_workers, throttled, round_start, round_end, disp, fin_order,
  \* a task and a text handled on their own (unit level), the outcome of one
  \* call of analyze_ticker_safe and the result built from it
  u_task, u_msg, u_cls, u_ret, u_delay, u_op, u_call, u_result,
  \* tasks a caller of get_ready_retries holds (returned, not queued again)
  u_held

stateVars == << successful, failed, retry_queue, total_tickers, completed_count >>
inputVars == << tickers, max_workers, max_total_time >>
localVars == << start_time, current_workers, retry_round, ready_retries,
                sleep_for, fin_idx, result >>
roundVars == << kind, workers, futs, asc_early, asc_order >>
histVars == << hist, round_workers, throttled, round_start, round_end, disp,
              fin_order >>
unitVars == << u_task, u_msg, u_cls, u_ret, u_delay, u_op, u_call, u_result,
              u_held >>
batchVars == << inputVars, now, stateVars, pc, localVars, roundVars, histVars >>
vars == << batchVars, unitVars >>

\* Input lists up to renaming of tickers: a ticker is a number, and the
\* first occurrences appear in increasing order.  Repeated tickers are
\* inputs the function accepts.
RECURSIVE SeqMax(_)
SeqMax(s) == IF s = <<>> THEN 0 ELSE Max(Head(s), SeqMax(Tail(s)))

Canonical(s) ==
  \A i \in 1 .. Len(s) : s[i] <= 1 + SeqMax(SubSeq(s, 1, i - 1))

InputLists ==
  UNION { { s \in [1 .. n -> 1 .. MaxTickers] : Canonical(s) } : n \in 0 .. MaxTickers }

Deadlines == { 0, ShortDeadline, DefaultMaxTotalTime }

\* configured worker counts: serial, odd and even
WorkerChoices == { 1, MaxWorkers - 1, MaxWorkers }

NoReturn == [ returned |-> FALSE ]

UnitIdle ==
  /\ u_task = NewTask(0, 0)
  /\ u_msg = {}
  /\ u_cls = "none"
  /\ u_ret = FALSE
  /\ u_delay = 0
  /\ u_op = "none"
  /\ u_call = NoCall
  /\ u_result = NoResult
  /\ u_held = {}

BatchIdle ==
  /\ tickers = <<>>
  /\ max_workers = 1
  /\ max_total_time = 0
  /\ now = 0
  /\ successful = EmptyDict
  /\ failed = EmptyDict
  /\ retry_queue = <<>>
  /\ total_tickers = 0
  /\ completed_count = 0
  /\ pc = "init"
  /\ start_time = 0
  /\ current_workers = 0
  /\ retry_round = 0
  /\ ready_retries = <<>>
  /\ sleep_for = 0
  /\ fin_idx = 0
  /\ result = NoReturn
  /\ kind = "none"
  /\ workers = 0
  /\ futs = <<>>
  /\ asc_early = {}
  /\ asc_order = <<>>
  /\ hist = <<>>
  /\ round_workers = <<>>
  /\ throttled = 0
  /\ round_start = <<>>
  /\ round_end = <<>>
  /\ disp = <<>>
  /\ fin_order = <<>>

Init ==
  /\ tickers \in InputLists
  /\ max_workers \in WorkerChoices
  /\ max_total_time \in Deadlines
  /\ now = 0
  /\ successful = EmptyDict
  /\ failed = EmptyDict
  /\ retry_queue = <<>>
  /\ total_tickers = 0
  /\ completed_count = 0
  /\ pc = "init"
  /\ start_time = 0
  /\ current_workers = 0
  /\ retry_round = 0
  /\ ready_retries = <<>>
  /\ sleep_for = 0
  /\ fin_idx = 0
  /\ result = NoReturn
  /\ kind = "none"
  /\ workers = 0
  /\ futs = <<>>
  /\ asc_early = {}
  /\ asc_order = <<>>
  /\ hist = [ i \in 1 .. Len(tickers) |-> <<>> ]
  /\ round_workers = <<>>
  /\ throttled = 0
  /\ round_start = <<>>
  /\ round_end = <<>>
  /\ disp = <<>>
  /\ fin_order = <<>>
  /\ UnitIdle

\* ------------------------------------------------------------- the clock
\* Time passes while analysis calls run (their latency) and while the
\* orchestrator sleeps; the orchestrator's own statements take no time.
Tick ==
  /\ \E i \in 1 .. Len(futs) : futs[i].st = "running"
  /\ now + TickLen <= MaxClock
  /\ now' = now + TickLen
  /\ UNCHANGED << inputVars, stateVars, pc, localVars, roundVars, histVars, unitVars >>

\* ------------------------------------------------------- the orchestrator
is_complete == is_complete_of(successful, failed, total_tickers)

\* ThreadPoolExecutor(max_workers=w) over `items` (tickers or tasks)
NewFutures(items) ==
  [ i \in 1 .. Len(items) |->
      [ item |-> items[i].item, ticker |-> items[i].ticker,
        st |-> "new", res |-> NoResult ] ]

InitialItems == [ i \in 1 .. Len(tickers) |-> [ item |-> i, ticker |-> tickers[i] ] ]

\* lines 166-182: the empty input returns at once; otherwise the state is
\* built and the initial round is entered with max_workers workers
Start ==
  /\ pc = "init"
  /\ IF tickers = <<>>
       THEN /\ pc' = "done"
            /\ result' = [ returned |-> TRUE, successful |-> EmptyDict,
                           failed |-> EmptyDict, summary |-> "No tickers to analyze" ]
            /\ UNCHANGED << total_tickers, start_time, current_workers, retry_round,
                            kind, workers, futs, round_workers, round_start, disp >>
       ELSE /\ total_tickers' = Len(tickers)
            /\ start_time' = now
            /\ current_workers' = max_workers
            /\ retry_round' = 0
            /\ kind' = "initial"
            /\ workers' = max_workers
            /\ futs' = NewFutures(InitialItems)
            /\ round_workers' = Append(round_workers, max_workers)
            /\ round_start' = Append(round_start, 0)
            /\ disp' = [ i \in 1 .. Len(tickers) |-> <<>> ]
            /\ pc' = "submit"
            /\ UNCHANGED result
  /\ UNCHANGED << inputVars, now, successful, failed, retry_queue, completed_count,
                  ready_retries, sleep_for, fin_idx, asc_early, asc_order, hist,
                  throttled, round_end, fin_order, unitVars >>

\* ------------------------------------------------------ the round executor
Running == { i \in 1 .. Len(futs) : futs[i].st = "running" }
Unsubmitted == { i \in 1 .. Len(futs) : futs[i].st = "new" }
Queued == { i \in 1 .. Len(futs) : futs[i].st = "queued" }
SetMin(S) == CHOOSE x \in S : \A y \in S : x <= y

Dispatch_all(fs) ==
  [ i \in 1 .. Len(fs) |->
      IF fs[i].st = "queued" THEN [fs[i] EXCEPT !.st = "running"] ELSE fs[i] ]

\* A pool thread takes the oldest queued call as soon as fewer than
\* `workers` calls run (a thread is created by submit, or a worker that has
\* finished a call takes the next one).
RECURSIVE Dispatch(_)
Dispatch(fs) ==
  LET running == { i \in 1 .. Len(fs) : fs[i].st = "running" }
      queued == { i \in 1 .. Len(fs) : fs[i].st = "queued" }
  IN IF queued # {} /\ Cardinality(running) < workers
       THEN Dispatch([fs EXCEPT ![SetMin(queued)].st = "running"])
     ELSE fs

\* executor.submit(analyze_ticker_safe, graph, ticker, date), in list order
Submit ==
  /\ pc = "submit"
  /\ Unsubmitted # {}
  /\ futs' = Dispatch([futs EXCEPT ![SetMin(Unsubmitted)].st = "queued"])
  /\ UNCHANGED << inputVars, now, stateVars, pc, localVars, kind, workers,
                  asc_early, asc_order, histVars, unitVars >>

\* as_completed(futures): the futures already finished are yielded first, in
\* no particular order; the others in the order they finish
AsCompleted ==
  /\ pc = "submit"
  /\ Unsubmitted = {}
  /\ pc' = "collect"
  /\ asc_early' = { i \in 1 .. Len(futs) : futs[i].st = "finished" }
  /\ asc_order' = <<>>
  /\ UNCHANGED << inputVars, now, stateVars, localVars, kind, workers, futs,
                  histVars, unitVars >>

IsThrottling(outcome) ==
  outcome.kind = "raise" /\ classify_error(outcome.msg) = "throttling"

WorkerFinish_records(i, outcome) ==
  /\ pc \in { "submit", "collect" }
  /\ i \in Running
  /\ IsThrottling(outcome) => throttled < MaxThrottles
  /\ throttled' = IF IsThrottling(outcome) THEN throttled + 1 ELSE throttled
  /\ futs' = Dispatch([futs EXCEPT ![i].st = "finished",
                          ![i].res = analyze_ticker_safe(futs[i].ticker, outcome)])
  /\ asc_order' = IF pc = "collect" THEN Append(asc_order, i) ELSE asc_order
  /\ hist' = [hist EXCEPT ![futs[i].item] = Append(@, outcome)]
  /\ fin_order' = Append(fin_order, i)
  /\ IF outcome.kind = "return"
       THEN /\ successful' = Put(successful, futs[i].ticker,
                                 analyze_ticker_safe(futs[i].ticker, outcome))
            /\ completed_count' = completed_count + 1
       ELSE UNCHANGED << successful, completed_count >>
  /\ UNCHANGED << inputVars, now, failed, retry_queue, total_tickers, pc, localVars,
                  kind, workers, asc_early, round_workers, round_start, round_end,
                  disp, unitVars >>

\* graph.propagate returns or raises; analyze_ticker_safe builds the result
WorkerFinish(i, outcome) ==
  /\ pc \in { "submit", "collect" }
  /\ i \in Running
  /\ IsThrottling(outcome) => throttled < MaxThrottles
  /\ throttled' = IF IsThrottling(outcome) THEN throttled + 1 ELSE throttled
  /\ futs' = Dispatch([futs EXCEPT ![i].st = "finished",
                          ![i].res = analyze_ticker_safe(futs[i].ticker, outcome)])
  /\ asc_order' = IF pc = "collect" THEN Append(asc_order, i) ELSE asc_order
  /\ hist' = [hist EXCEPT ![futs[i].item] = Append(@, outcome)]
  /\ fin_order' = Append(fin_order, i)
  /\ UNCHANGED << inputVars, now, stateVars, pc, localVars, kind, workers,
                  asc_early, round_workers, round_start, round_end, disp, unitVars >>

NextCompleted_any(f) == futs[f].st = "finished"

\* the future the `for future in as_completed(...)` loop gets next
NextCompleted(f) ==
  IF asc_early # {} THEN f \in asc_early
  ELSE asc_order # <<>> /\ f = Head(asc_order)

Taken(f, d) ==
  /\ disp' = [disp EXCEPT ![f] = Append(@, d)]
  /\ fin_order' = SelectSeq(fin_order, LAMBDA x : x # f)
  /\ asc_early' = asc_early \ {f}
  /\ asc_order' = IF asc_early # {} THEN asc_order ELSE Tail(asc_order)
  /\ futs' = [futs EXCEPT ![f].st = "collected", ![f].res = NoResult]

add_success_uncounted(ticker, res) ==
  /\ successful' = Put(successful, ticker, res)
  /\ completed_count' = completed_count

add_success(ticker, res) ==
  /\ successful' = Put(successful, ticker, res)
  /\ completed_count' = completed_count + 1

add_retry(task) ==
  retry_queue' = Append(retry_queue, task)

add_permanent_failure_dropped(ticker, error) ==
  /\ failed' = failed
  /\ completed_count' = completed_count + 1

add_permanent_failure(ticker, error) ==
  /\ failed' = Put(failed, ticker, FailureRecord(ticker, error))
  /\ completed_count' = completed_count + 1

\* _run_single_batch_round, one iteration of the collection loop
CollectInitial(f, r) ==
  /\ pc = "collect"
  /\ kind = "initial"
  /\ NextCompleted(f)
  /\ LET ticker == futs[f].ticker
         res == futs[f].res
     IN IF res.status = "success"
          THEN /\ add_success(ticker, res)
               /\ Taken(f, "success")
               /\ UNCHANGED << failed, retry_queue >>
        ELSE IF GetRetryable(res)
          THEN /\ add_retry(increment_attempt(NewTask(ticker, futs[f].item),
                                              res.error, now, r))
               /\ Taken(f, "retry")
               /\ UNCHANGED << successful, failed, completed_count >>
        ELSE /\ add_permanent_failure(ticker, res.error)
             /\ Taken(f, "failed")
             /\ UNCHANGED << successful, retry_queue >>
  /\ UNCHANGED << inputVars, now, total_tickers, pc, localVars, kind, workers,
                  hist, round_workers, throttled, round_start, round_end, unitVars >>

\* _run_retry_round, one iteration of the collection loop; retry_tasks is
\* the caller's ready_retries list, whose task objects are updated in place
CollectRetry(f, r) ==
  /\ pc = "collect"
  /\ kind = "retry"
  /\ NextCompleted(f)
  /\ LET task == ready_retries[f]
         res == futs[f].res
     IN IF res.status = "success"
          THEN /\ add_success(task.ticker, res)
               /\ Taken(f, "success")
               /\ UNCHANGED << failed, retry_queue, ready_retries >>
        ELSE IF GetRetryable(res) /\ should_retry(task)
          THEN LET t2 == increment_attempt(task, res.error, now, r)
               IN /\ add_retry(t2)
                  /\ Taken(f, "retry")
                  /\ ready_retries' = [ready_retries EXCEPT ![f] = t2]
                  /\ UNCHANGED << successful, failed, completed_count >>
        ELSE /\ add_permanent_failure(task.ticker, res.error)
             /\ Taken(f, "failed")
             /\ UNCHANGED << successful, retry_queue, ready_retries >>
  /\ UNCHANGED << inputVars, now, total_tickers, pc, start_time, current_workers,
                  retry_round, sleep_for, fin_idx, result, kind, workers,
                  hist, round_workers, throttled, round_start, round_end, unitVars >>

RoundReturn_early ==
  /\ pc = "collect"
  /\ \E i \in 1 .. Len(futs) : futs[i].st = "collected"
  /\ pc' = IF kind = "initial" THEN "loop" ELSE "timeout_check"
  /\ futs' = <<>>
  /\ kind' = "none"
  /\ round_end' = Append(round_end,
                         [ at |-> now - start_time,
                           pending |-> Cardinality({ i \in 1 .. Len(futs) :
                                                      futs[i].st # "collected" }) ])
  /\ UNCHANGED << inputVars, now, stateVars, localVars, workers, asc_early,
                  asc_order, hist, round_workers, throttled, round_start, disp,
                  fin_order, unitVars >>

RoundReturn_deadline ==
  /\ pc = "collect"
  /\ \/ \A i \in 1 .. Len(futs) : futs[i].st = "collected"
     \/ now - start_time > max_total_time
  /\ pc' = IF kind = "initial" THEN "loop" ELSE "timeout_check"
  /\ futs' = <<>>
  /\ kind' = "none"
  /\ round_end' = Append(round_end,
                         [ at |-> now - start_time,
                           pending |-> Cardinality({ i \in 1 .. Len(futs) :
                                                      futs[i].st # "collected" }) ])
  /\ UNCHANGED << inputVars, now, stateVars, localVars, workers, asc_early,
                  asc_order, hist, round_workers, throttled, round_start, disp,
                  fin_order, unitVars >>

RoundReturn_halve ==
  /\ pc = "collect"
  /\ \A i \in 1 .. Len(futs) : futs[i].st = "collected"
  /\ pc' = IF kind = "initial" THEN "loop" ELSE "timeout_check"
  /\ futs' = <<>>
  /\ kind' = "none"
  /\ current_workers' = IF throttled > 0 THEN Max(1, current_workers \div 2)
                        ELSE current_workers
  /\ round_end' = Append(round_end,
                         [ at |-> now - start_time,
                           pending |-> Cardinality({ i \in 1 .. Len(futs) :
                                                      futs[i].st # "collected" }) ])
  /\ UNCHANGED << inputVars, now, stateVars, start_time, retry_round, ready_retries,
                  sleep_for, fin_idx, result, workers, asc_early, asc_order, hist,
                  round_workers, throttled, round_start, disp, fin_order, unitVars >>

\* the with-block ends when every future has been collected; the round
\* function returns to line 185 (initial round) or line 212 (retry round)
RoundReturn ==
  /\ pc = "collect"
  /\ \A i \in 1 .. Len(futs) : futs[i].st = "collected"
  /\ pc' = IF kind = "initial" THEN "loop" ELSE "timeout_check"
  /\ futs' = <<>>
  /\ kind' = "none"
  /\ round_end' = Append(round_end,
                         [ at |-> now - start_time,
                           pending |-> Cardinality({ i \in 1 .. Len(futs) :
                                                      futs[i].st # "collected" }) ])
  /\ UNCHANGED << inputVars, now, stateVars, localVars, workers, asc_early,
                  asc_order, hist, round_workers, throttled, round_start, disp,
                  fin_order, unitVars >>

LoopCheck_noqueue ==
  /\ pc = "loop"
  /\ IF ~is_complete /\ now - start_time < max_total_time
       THEN /\ retry_round' = retry_round + 1
            /\ ready_retries' = <<>>
            /\ pc' = "wait"
            /\ UNCHANGED fin_idx
       ELSE /\ pc' = "finalize"
            /\ fin_idx' = 1
            /\ UNCHANGED << retry_round, ready_retries >>
  /\ UNCHANGED << inputVars, now, stateVars, start_time, current_workers,
                  sleep_for, result, roundVars, histVars, unitVars >>

LoopCheck_le ==
  /\ pc = "loop"
  /\ IF ~is_complete /\ now - start_time <= max_total_time /\ Len(retry_queue) > 0
       THEN /\ retry_round' = retry_round + 1
            /\ ready_retries' = <<>>
            /\ pc' = "wait"
            /\ UNCHANGED fin_idx
       ELSE /\ pc' = "finalize"
            /\ fin_idx' = 1
            /\ UNCHANGED << retry_round, ready_retries >>
  /\ UNCHANGED << inputVars, now, stateVars, start_time, current_workers,
                  sleep_for, result, roundVars, histVars, unitVars >>

\* ------------------------------------------------- the retry loop, 185-214
\* the while condition of line 185
LoopCheck ==
  /\ pc = "loop"
  /\ IF ~is_complete /\ now - start_time < max_total_time /\ Len(retry_queue) > 0
       THEN /\ retry_round' = retry_round + 1
            /\ ready_retries' = <<>>
            /\ pc' = "wait"
            /\ UNCHANGED fin_idx
       ELSE /\ pc' = "finalize"
            /\ fin_idx' = 1
            /\ UNCHANGED << retry_round, ready_retries >>
  /\ UNCHANGED << inputVars, now, stateVars, start_time, current_workers,
                  sleep_for, result, roundVars, histVars, unitVars >>

NextRetry(q) ==
  CHOOSE t \in { q[i].next_retry_time : i \in 1 .. Len(q) } :
    \A j \in 1 .. Len(q) : t <= q[j].next_retry_time

WaitPoll_uncapped ==
  /\ pc = "wait"
  /\ Len(ready_retries) = 0 /\ Len(retry_queue) > 0
  /\ LET g == get_ready_retries(retry_queue, now)
     IN /\ ready_retries' = g.ready
        /\ retry_queue' = g.queue
        /\ IF Len(g.ready) = 0
             THEN LET next_retry == NextRetry(g.queue)
                      wait_time == next_retry - now
                  IN IF wait_time > 0
                       THEN /\ sleep_for' = wait_time
                            /\ now' = now + sleep_for'
                       ELSE UNCHANGED << sleep_for, now >>
             ELSE UNCHANGED << sleep_for, now >>
  /\ UNCHANGED << inputVars, successful, failed, total_tickers, completed_count,
                  pc, start_time, current_workers, retry_round, fin_idx, result,
                  roundVars, histVars, unitVars >>

WaitPoll_nosleep ==
  /\ pc = "wait"
  /\ Len(ready_retries) = 0 /\ Len(retry_queue) > 0
  /\ LET g == get_ready_retries(retry_queue, now)
     IN /\ ready_retries' = g.ready
        /\ retry_queue' = g.queue
        /\ IF Len(g.ready) = 0
             THEN LET next_retry == NextRetry(g.queue)
                      wait_time == next_retry - now
                  IN IF wait_time > 0
                       THEN /\ sleep_for' = Min(wait_time, SleepCap)
                            /\ now' = now
                       ELSE UNCHANGED << sleep_for, now >>
             ELSE UNCHANGED << sleep_for, now >>
  /\ UNCHANGED << inputVars, successful, failed, total_tickers, completed_count,
                  pc, start_time, current_workers, retry_round, fin_idx, result,
                  roundVars, histVars, unitVars >>

\* lines 193-201, one iteration of the inner while loop: poll the queue and,
\* when nothing is ready, sleep for at most 10 s towards the earliest retry
WaitPoll ==
  /\ pc = "wait"
  /\ Len(ready_retries) = 0 /\ Len(retry_queue) > 0
  /\ LET g == get_ready_retries(retry_queue, now)
     IN /\ ready_retries' = g.ready
        /\ retry_queue' = g.queue
        /\ IF Len(g.ready) = 0
             THEN LET next_retry == NextRetry(g.queue)
                      wait_time == next_retry - now
                  IN IF wait_time > 0
                       THEN /\ sleep_for' = Min(wait_time, SleepCap)
                            /\ now' = now + sleep_for'
                       ELSE UNCHANGED << sleep_for, now >>
             ELSE UNCHANGED << sleep_for, now >>
  /\ UNCHANGED << inputVars, successful, failed, total_tickers, completed_count,
                  pc, start_time, current_workers, retry_round, fin_idx, result,
                  roundVars, histVars, unitVars >>

WaitExit_nohalve ==
  /\ pc = "wait"
  /\ ~(Len(ready_retries) = 0 /\ Len(retry_queue) > 0)
  /\ IF Len(ready_retries) > 0
       THEN /\ kind' = "retry"
            /\ workers' = current_workers
            /\ futs' = NewFutures(ready_retries)
            /\ round_workers' = Append(round_workers, current_workers)
            /\ round_start' = Append(round_start, now - start_time)
            /\ disp' = [ i \in 1 .. Len(ready_retries) |-> <<>> ]
            /\ fin_order' = <<>>
            /\ pc' = "submit"
       ELSE /\ pc' = "timeout_check"
            /\ UNCHANGED << kind, workers, futs, round_workers, round_start, disp,
                            fin_order >>
  /\ UNCHANGED << inputVars, now, stateVars, start_time, current_workers,
                  retry_round, ready_retries, sleep_for, fin_idx, result,
                  asc_early, asc_order, hist, throttled, round_end, unitVars >>

\* lines 203-209: the inner loop has ended; halve the workers and run the
\* retry round over ready_retries
WaitExit ==
  /\ pc = "wait"
  /\ ~(Len(ready_retries) = 0 /\ Len(retry_queue) > 0)
  /\ IF Len(ready_retries) > 0
       THEN /\ current_workers' = Max(1, current_workers \div 2)
            /\ kind' = "retry"
            /\ workers' = current_workers'
            /\ futs' = NewFutures(ready_retries)
            /\ round_workers' = Append(round_workers, current_workers')
            /\ round_start' = Append(round_start, now - start_time)
            /\ disp' = [ i \in 1 .. Len(ready_retries) |-> <<>> ]
            /\ fin_order' = <<>>
            /\ pc' = "submit"
       ELSE /\ pc' = "timeout_check"
            /\ UNCHANGED << current_workers, kind, workers, futs, round_workers,
                            round_start, disp >>
            /\ UNCHANGED fin_order
  /\ UNCHANGED << inputVars, now, stateVars, start_time, retry_round,
                  ready_retries, sleep_for, fin_idx, result, asc_early,
                  asc_order, hist, throttled, round_end, unitVars >>

\* lines 211-214
TimeoutCheck ==
  /\ pc = "timeout_check"
  /\ IF now - start_time > max_total_time
       THEN pc' = "finalize" /\ fin_idx' = 1
       ELSE pc' = "loop" /\ UNCHANGED fin_idx
  /\ UNCHANGED << inputVars, now, stateVars, start_time, current_workers,
                  retry_round, ready_retries, sleep_for, result, roundVars,
                  histVars, unitVars >>

\* f"Max retries exceeded: {task.last_error}"
MaxRetriesMessage(last_error) == {"Max retries exceeded"} \cup last_error

ForceFail_plain ==
  /\ pc = "finalize"
  /\ fin_idx <= Len(retry_queue)
  /\ LET task == retry_queue[fin_idx]
     IN add_permanent_failure(task.ticker, task.last_error)
  /\ fin_idx' = fin_idx + 1
  /\ UNCHANGED << inputVars, now, successful, retry_queue, total_tickers, pc,
                  start_time, current_workers, retry_round, ready_retries,
                  sleep_for, result, roundVars, histVars, unitVars >>

ForceFail_skip ==
  /\ pc = "finalize"
  /\ fin_idx <= Len(retry_queue)
  /\ fin_idx' = fin_idx + 1
  /\ UNCHANGED << inputVars, now, stateVars, pc, start_time, current_workers,
                  retry_round, ready_retries, sleep_for, result, roundVars,
                  histVars, unitVars >>

\* lines 216-218, one iteration
ForceFail ==
  /\ pc = "finalize"
  /\ fin_idx <= Len(retry_queue)
  /\ LET task == retry_queue[fin_idx]
     IN add_permanent_failure(task.ticker, MaxRetriesMessage(task.last_error))
  /\ fin_idx' = fin_idx + 1
  /\ UNCHANGED << inputVars, now, successful, retry_queue, total_tickers, pc,
                  start_time, current_workers, retry_round, ready_retries,
                  sleep_for, result, roundVars, histVars, unitVars >>

Return_offbyone ==
  /\ pc = "finalize"
  /\ fin_idx > Len(retry_queue)
  /\ result' = [ returned |-> TRUE, successful |-> successful, failed |-> failed,
                 retry_stats |-> [ total_rounds |-> retry_round,
                                   total_time |-> now - start_time,
                                   final_workers |-> current_workers ],
                 summary |-> "Analyzed" ]
  /\ pc' = "done"
  /\ UNCHANGED << inputVars, now, stateVars, start_time, current_workers,
                  retry_round, ready_retries, sleep_for, fin_idx, roundVars,
                  histVars, unitVars >>

\* lines 220-232
Return ==
  /\ pc = "finalize"
  /\ fin_idx > Len(retry_queue)
  /\ result' = [ returned |-> TRUE, successful |-> successful, failed |-> failed,
                 retry_stats |-> [ total_rounds |-> retry_round + 1,
                                   total_time |-> now - start_time,
                                   final_workers |-> current_workers ],
                 summary |-> "Analyzed" ]
  /\ pc' = "done"
  /\ UNCHANGED << inputVars, now, stateVars, start_time, current_workers,
                  retry_round, ready_retries, sleep_for, fin_idx, roundVars,
                  histVars, unitVars >>

Next ==
  \/ Start
  \/ Tick
  \/ Submit
  \/ AsCompleted
  \/ \E i \in 1 .. Len(futs), o \in Outcomes : WorkerFinish(i, o)
  \/ \E f \in 1 .. Len(futs), r \in BatchRandoms : CollectInitial(f, r)
  \/ \E f \in 1 .. Len(futs), r \in BatchRandoms : CollectRetry(f, r)
  \/ RoundReturn
  \/ LoopCheck
  \/ WaitPoll
  \/ WaitExit
  \/ TimeoutCheck
  \/ ForceFail
  \/ Return

Spec == Init /\ [][Next]_vars

\* The orchestrator thread executes its next statement, and every call of
\* graph.propagate that a pool thread runs returns or raises in the end.
OrchestratorStep ==
  \/ Start
  \/ Submit
  \/ AsCompleted
  \/ \E f \in 1 .. Len(futs), r \in BatchRandoms : CollectInitial(f, r)
  \/ \E f \in 1 .. Len(futs), r \in BatchRandoms : CollectRetry(f, r)
  \/ RoundReturn
  \/ LoopCheck
  \/ WaitPoll
  \/ WaitExit
  \/ TimeoutCheck
  \/ ForceFail
  \/ Return

AnalysisReturns == \E i \in 1 .. Len(futs), o \in Outcomes : WorkerFinish(i, o)

FairSpec ==
  Init /\ [][Next]_vars /\ WF_vars(OrchestratorStep) /\ WF_vars(AnalysisReturns)

\* ---------------------------------------------------------- the unit level
\* RetryableTask and classify_error applied on their own, as the unit tests
\* do: a task is built with any attempt count and last_error text.
UnitMessages == SUBSET Fragments

InitUnit ==
  /\ BatchIdle
  /\ \E a \in 0 .. MaxUnitAttempt, m \in UnitMessages :
       u_task = [ NewTask(0, 0) EXCEPT !.attempt = a, !.last_error = m ]
  /\ u_msg = {}
  /\ u_cls = "none"
  /\ u_ret = FALSE
  /\ u_delay = 0
  /\ u_op = "none"
  /\ u_call = NoCall
  /\ u_result = NoResult
  /\ u_held = {}

\* classify_error(task.last_error)
UnitClassify ==
  /\ u_msg' = u_task.last_error
  /\ u_cls' = classify_error(u_task.last_error)
  /\ u_op' = "classify"
  /\ u_ret' = FALSE
  /\ u_delay' = 0
  /\ u_call' = NoCall
  /\ u_result' = NoResult
  /\ UNCHANGED << batchVars, u_task, u_held >>

\* task.should_retry()
UnitShouldRetry ==
  /\ u_ret' = should_retry(u_task)
  /\ u_op' = "should_retry"
  /\ u_msg' = {}
  /\ u_cls' = "none"
  /\ u_delay' = 0
  /\ u_call' = NoCall
  /\ u_result' = NoResult
  /\ UNCHANGED << batchVars, u_task, u_held >>

\* task.increment_attempt(error_msg) at clock value `now`
UnitIncrement(error_msg, r) ==
  /\ u_task.attempt < MaxUnitAttempt
  /\ u_task' = increment_attempt(u_task, error_msg, now, r)
  /\ u_delay' = u_task'.next_retry_time - now
  /\ u_op' = "increment"
  /\ u_msg' = {}
  /\ u_cls' = "none"
  /\ u_ret' = FALSE
  /\ u_call' = NoCall
  /\ u_result' = NoResult
  /\ UNCHANGED << batchVars, u_held >>

\* analyze_ticker_safe(graph, ticker, date) with a graph whose propagate
\* returns, or raises an exception with the text of task.last_error
UnitAnalyze(ticker, outcome) ==
  /\ u_call' = [ ticker |-> ticker, outcome |-> outcome ]
  /\ u_result' = analyze_ticker_safe(ticker, outcome)
  /\ u_op' = "analyze"
  /\ u_msg' = {}
  /\ u_cls' = "none"
  /\ u_ret' = FALSE
  /\ u_delay' = 0
  /\ UNCHANGED << batchVars, u_task, u_held >>

NextUnit ==
  \/ UnitClassify
  \/ UnitShouldRetry
  \/ \E m \in BatchMessages, r \in Randoms : UnitIncrement(m, r)
  \/ \E t \in 1 .. MaxTickers, o \in { Returned, Raised(u_task.last_error) } :
       UnitAnalyze(t, o)

SpecUnit == InitUnit /\ [][NextUnit]_vars

\* ---------------------------------------------------------- the queue level
\* BatchAnalysisState.retry_queue handled on its own, as the unit tests do:
\* tasks are built, given a next_retry_time and passed to add_retry; then
\* get_ready_retries is called as time passes, and a caller queues returned
\* tasks again as _run_retry_round does.
\* next_retry_time given to a built task: ready now, or not yet
QueueTimes == { 0, 10 }

BuiltQueues ==
  UNION { { [ k \in 1 .. n |->
               [ NewTask(tk[k], k) EXCEPT !.next_retry_time = tm[k] ] ] :
            tk \in [1 .. n -> 1 .. MaxTickers], tm \in [1 .. n -> QueueTimes] } :
          n \in 0 .. MaxQueue }

InitQueue ==
  /\ tickers = <<>>
  /\ max_workers = 1
  /\ max_total_time = 0
  /\ now = 0
  /\ successful = EmptyDict
  /\ failed = EmptyDict
  /\ retry_queue \in BuiltQueues
  /\ total_tickers = 0
  /\ completed_count = 0
  /\ pc = "init"
  /\ start_time = 0
  /\ current_workers = 0
  /\ retry_round = 0
  /\ ready_retries = <<>>
  /\ sleep_for = 0
  /\ fin_idx = 0
  /\ result = NoReturn
  /\ kind = "none"
  /\ workers = 0
  /\ futs = <<>>
  /\ asc_early = {}
  /\ asc_order = <<>>
  /\ hist = <<>>
  /\ round_workers = <<>>
  /\ throttled = 0
  /\ round_start = <<>>
  /\ round_end = <<>>
  /\ disp = <<>>
  /\ fin_order = <<>>
  /\ u_task = NewTask(0, 0)
  /\ u_msg = {}
  /\ u_cls = "none"
  /\ u_ret = FALSE
  /\ u_delay = 0
  /\ u_op = "queue"
  /\ u_call = NoCall
  /\ u_result = NoResult
  /\ u_held = {}

queueFrame ==
  << inputVars, successful, failed, total_tickers, completed_count, pc, start_time,
     current_workers, retry_round, sleep_for, fin_idx, result, roundVars, hist,
     round_workers, round_start, round_end, disp, fin_order,
     u_task, u_msg, u_cls, u_ret, u_delay, u_call, u_result >>

\* ready_tasks = state.get_ready_retries()
QueueGetReady ==
  /\ LET g == get_ready_retries(retry_queue, now)
     IN /\ ready_retries' = g.ready
        /\ retry_queue' = g.queue
        /\ u_held' = u_held \cup { g.ready[k].item : k \in 1 .. Len(g.ready) }
  /\ u_op' = "get_ready"
  /\ UNCHANGED << queueFrame, now, throttled >>

\* task.increment_attempt(result["error"]); state.add_retry(task), for a
\* task of the list the last call returned whose retry was throttled
QueueAddRetry(f, r) ==
  /\ f \in 1 .. Len(ready_retries)
  /\ ready_retries[f].item \in u_held
  /\ throttled < MaxRequeues
  /\ throttled' = throttled + 1
  /\ LET t2 == increment_attempt(ready_retries[f], {"ThrottlingException"}, now, r)
     IN /\ add_retry(t2)
        /\ ready_retries' = [ready_retries EXCEPT ![f] = t2]
        /\ u_held' = u_held \ { t2.item }
  /\ u_op' = "add_retry"
  /\ UNCHANGED << queueFrame, now >>

\* time passes until the earliest next_retry_time of the queue
QueueSleep ==
  /\ retry_queue # <<>>
  /\ NextRetry(retry_queue) > now
  /\ now' = NextRetry(retry_queue)
  /\ u_op' = "sleep"
  /\ UNCHANGED << queueFrame, retry_queue, ready_retries, u_held, throttled >>

NextQueue ==
  \/ QueueGetReady
  \/ \E f \in 1 .. MaxQueue, r \in BatchRandoms : QueueAddRetry(f, r)
  \/ QueueSleep

SpecQueue == InitQueue /\ [][NextQueue]_vars

\* ================================================================= claims
UniqueInput ==
  \A i, j \in 1 .. Len(tickers) : i # j => tickers[i] # tickers[j]

Unlimited == max_total_time = DefaultMaxTotalTime

Last(h) == h[Len(h)]

\* The disposition one item reaches from its own outcomes alone, by the
\* rules of the two collection loops.
SoloStep(st, o) ==
  IF st.disp \in { "success", "failed" } THEN [st EXCEPT !.disp = "again"]
  ELSE IF st.disp = "again" THEN st
  ELSE IF o.kind = "return" THEN [st EXCEPT !.disp = "success"]
  ELSE IF classify_error(o.msg) = "throttling"
          /\ (st.disp = "new"
              \/ (st.attempt < AttemptLimit
                  /\ Contains(st.last_error, "ThrottlingException")))
    THEN [ disp |-> "retry", attempt |-> st.attempt + 1, last_error |-> o.msg ]
  ELSE [st EXCEPT !.disp = "failed"]

RECURSIVE SoloFrom(_, _)
SoloFrom(st, h) == IF h = <<>> THEN st ELSE SoloFrom(SoloStep(st, Head(h)), Tail(h))

Solo(h) == SoloFrom([ disp |-> "new", attempt |-> 0, last_error |-> {} ], h)

\* C1 (as amended): when the run returns for a list of distinct tickers,
\* len(successful) + len(failed) = len(input) and no ticker is a key of both
\* returned ledgers.
C1_CompletenessUnique ==
  (pc = "done" /\ UniqueInput) =>
    /\ Cardinality(DOMAIN result.successful) + Cardinality(DOMAIN result.failed)
         = Len(tickers)
    /\ (DOMAIN result.successful) \cap (DOMAIN result.failed) = {}

\* C1 as stated: the same for any input list, repeated tickers included.
C1_CompletenessAnyInput ==
  pc = "done" =>
    /\ Cardinality(DOMAIN result.successful) + Cardinality(DOMAIN result.failed)
         = Len(tickers)
    /\ (DOMAIN result.successful) \cap (DOMAIN result.failed) = {}

\* a run of two distinct tickers that returned after a retry round with one
\* success and one failure
C1_Witness ==
  /\ pc = "done"
  /\ UniqueInput
  /\ Len(tickers) = 2
  /\ retry_round >= 1
  /\ Cardinality(DOMAIN result.successful) = 1
  /\ Cardinality(DOMAIN result.failed) = 1

\* C2: when the run returns for a non-empty input, completed_count equals
\* total_tickers, whichever exit ended the retry loop.
C2_NoItemDropped ==
  (pc = "done" /\ tickers # <<>>) => completed_count = total_tickers

\* a return through the deadline exit, with tasks force-failed from the queue
C2_Witness ==
  /\ pc = "done"
  /\ Len(retry_queue) > 0
  /\ now - start_time > max_total_time

\* C3 as stated: completed_count = len(successful) + len(failed) in every
\* state, and completed_count never decreases.
C3_LedgerInvariantAnyInput ==
  /\ [](completed_count = Cardinality(DOMAIN successful) + Cardinality(DOMAIN failed))
  /\ [][completed_count' >= completed_count]_vars

\* C3 (as amended): for a list of distinct tickers, completed_count =
\* len(successful) + len(failed) in every state; and for every input
\* completed_count never decreases from one state to the next.
C3_LedgerInvariantUnique ==
  /\ [](UniqueInput =>
          completed_count = Cardinality(DOMAIN successful) + Cardinality(DOMAIN failed))
  /\ [][completed_count' >= completed_count]_vars

\* a state inside a retry round, after a success and a failure were recorded
C3_Witness ==
  /\ UniqueInput
  /\ kind = "retry"
  /\ completed_count = 2
  /\ Cardinality(DOMAIN successful) = 1
  /\ Cardinality(DOMAIN failed) = 1

\* C4: no outcome of graph.propagate stops the run (every state before the
\* return has a next step), at the return every input position has a final
\* disposition of its ticker, and with the deadline out of reach that
\* disposition is the one its own outcomes give.
C4_FailureContainment ==
  /\ pc # "done" => ENABLED Next
  /\ pc = "done" =>
       \A i \in 1 .. Len(tickers) :
         /\ tickers[i] \in (DOMAIN successful) \cup (DOMAIN failed)
         /\ Unlimited =>
              /\ Solo(hist[i]).disp \in { "success", "failed" }
              /\ Solo(hist[i]).disp = "success" => tickers[i] \in DOMAIN successful
              /\ Solo(hist[i]).disp = "failed" => tickers[i] \in DOMAIN failed
              /\ UniqueInput =>
                   ~(tickers[i] \in DOMAIN successful /\ tickers[i] \in DOMAIN failed)

\* a finished run without deadline in which one item raised a non-throttling
\* error and the other, after throttling twice, succeeded
C4_Witness ==
  /\ pc = "done"
  /\ Unlimited
  /\ Len(tickers) = 2
  /\ UniqueInput
  /\ hist[1] # <<>> /\ Last(hist[1]).kind = "raise"
  /\ ~IsThrottling(Last(hist[1]))
  /\ Len(hist[2]) = 3
  /\ Last(hist[2]).kind = "return"

\* C5: an invocation that fails with a non-throttling error is the item's
\* last one; its result is recorded in failed by the round that ran it, with
\* the error text (when no other input position has the same ticker), and
\* no task of the item is in retry_queue.
C5_OnlyThrottlingRetried ==
  \A i \in 1 .. Len(hist) :
    /\ \A k \in 1 .. Len(hist[i]) - 1 : IsThrottling(hist[i][k])
    /\ (hist[i] # <<>> /\ Last(hist[i]).kind = "raise" /\ ~IsThrottling(Last(hist[i]))) =>
         /\ \A q \in 1 .. Len(retry_queue) : retry_queue[q].item # i
         /\ \/ \E f \in 1 .. Len(futs) :
                 /\ futs[f].item = i
                 /\ futs[f].st = "finished"
                 /\ futs[f].res.error = Last(hist[i]).msg
            \/ /\ \A f \in 1 .. Len(futs) : futs[f].item = i => futs[f].st = "collected"
               /\ tickers[i] \in DOMAIN failed
               /\ (\A j \in 1 .. Len(tickers) : j # i => tickers[j] # tickers[i]) =>
                    failed[tickers[i]].error = Last(hist[i]).msg

\* a retry round recorded an item's non-throttling failure while another
\* task stays queued
C5_Witness ==
  /\ kind = "retry"
  /\ Len(retry_queue) > 0
  /\ \E i \in 1 .. Len(hist) :
       /\ Len(hist[i]) = 2
       /\ ~IsThrottling(Last(hist[i]))
       /\ Last(hist[i]).kind = "raise"
       /\ tickers[i] \in DOMAIN failed
       /\ \A f \in 1 .. Len(futs) : futs[f].item = i => futs[f].st = "collected"

\* keyword rules of the classifier, in precedence order
Rules ==
  << { "throttlingexception", "too many tokens" }, { "timeout", "connection" },
     { "invalid", "not found" }, { "permission", "access" } >>
RuleCategory == << "throttling", "network", "data", "auth" >>
HasKeyword(msg, kw) == \E f \in msg : LowerFragment(f) = kw
Matching(msg) == { k \in 1 .. 4 : \E kw \in Rules[k] : HasKeyword(msg, kw) }

\* C6: classify_error returns one of the five categories; the category is
\* that of the earliest rule one of whose keywords the text contains in any
\* letter case, and unknown when no rule matches.
C6_ClassifierPrecedence ==
  u_op = "classify" =>
    /\ u_cls \in Categories
    /\ u_cls = IF Matching(u_msg) = {} THEN "unknown"
               ELSE RuleCategory[SetMin(Matching(u_msg))]

\* a text with a mixed-case throttling keyword and keywords of every later rule
C6_Witness ==
  /\ u_op = "classify"
  /\ u_cls = "throttling"
  /\ "Too many tokens" \in u_msg
  /\ "throttlingexception" \notin u_msg
  /\ Matching(u_msg) = { 1, 2, 3, 4 }

\* C7 as stated: should_retry() is true exactly when attempt < 3 and
\* classify_error(last_error) is throttling.
C7_ShouldRetryIffThrottling ==
  u_op = "should_retry" =>
    (u_ret <=> (u_task.attempt < 3 /\ classify_error(u_task.last_error) = "throttling"))

\* C8: should_retry() is false for a task with attempt >= 3 whatever its
\* error text, and false for a task with empty last_error whatever its attempt.
C8_RetryEligibility ==
  (u_op = "should_retry" /\ (u_task.attempt >= 3 \/ u_task.last_error = {})) => ~u_ret

\* a task at the ceiling whose last error is a throttling exception
C8_Witness ==
  /\ u_op = "should_retry"
  /\ u_task.attempt = 3
  /\ Contains(u_task.last_error, "ThrottlingException")
  /\ ~u_ret

\* C9 as stated: after the k-th failure the delay is max(15, B + j) with
\* B = 30 * 2^(k-1) and |j| <= B/4, within [15, 50) for k = 1 and [40, 90)
\* for k = 2.
C9_BackoffBounds ==
  u_op = "increment" =>
    LET k == u_task.attempt
        B == 30 * Pow2(k - 1)
    IN /\ 4 * u_delay >= 3 * B \/ u_delay = 15
       /\ 4 * u_delay <= 5 * B \/ u_delay = 15
       /\ u_delay >= 15
       /\ k = 1 => u_delay < 50
       /\ k = 2 => (u_delay >= 40 /\ u_delay < 90)

\* C10: the initial round runs with max_workers, every later round with
\* max(1, floor(w / 2)) of the round before it; the count never increases,
\* is never below 1, the round in progress uses the latest count, and the
\* returned final_workers is the count of the last round.
C10_Backpressure ==
  /\ round_workers # <<>> => round_workers[1] = max_workers
  /\ \A k \in 2 .. Len(round_workers) :
       /\ round_workers[k] = Max(1, round_workers[k - 1] \div 2)
       /\ round_workers[k] <= round_workers[k - 1]
  /\ \A k \in 1 .. Len(round_workers) : round_workers[k] >= 1
  /\ kind # "none" => workers = Last(round_workers)
  /\ (pc = "done" /\ tickers # <<>>) =>
       result.retry_stats.final_workers = Last(round_workers)

\* a returned run whose three rounds used 4, 2 and 1 workers
C10_Witness ==
  /\ pc = "done"
  /\ round_workers = << 4, 2, 1 >>
  /\ result.retry_stats.final_workers = 1

\* the first invocation of input position i raised a throttling-classified error
FirstThrottled(i) == hist[i] # <<>> /\ IsThrottling(hist[i][1])

\* tickers of the input positions whose first invocation ended in `k`
FirstKind(k) ==
  { tickers[i] : i \in { j \in 1 .. Len(tickers) : hist[j] # <<>> /\ hist[j][1].kind = k } }

\* C11 as stated: no retry round begins at an elapsed time greater than
\* max_total_time, also when the deadline passes during the wait for a
\* retry window.
C11_DeadlineBoundsRoundStarts ==
  \A k \in 2 .. Len(round_start) : round_start[k] <= max_total_time

\* C12 (as amended): with max_total_time = 0 the run never waits and never
\* runs a retry round; when it returns for distinct tickers that all
\* throttled on their first invocation, each was invoked once, failed has
\* one record per input and successful is empty.
C12_DeadlineSafetyUnique ==
  max_total_time = 0 =>
    /\ pc # "wait" /\ kind # "retry"
    /\ sleep_for = 0 /\ retry_round = 0
    /\ Len(round_start) <= 1
    /\ (pc = "done" /\ UniqueInput /\ \A i \in 1 .. Len(tickers) : FirstThrottled(i)) =>
         /\ \A i \in 1 .. Len(tickers) : Len(hist[i]) = 1
         /\ Cardinality(DOMAIN result.failed) = Len(tickers)
         /\ Cardinality(DOMAIN result.successful) = 0

\* C12 as stated: the same for any input list, repeated tickers included.
C12_DeadlineSafetyAnyInput ==
  max_total_time = 0 =>
    /\ pc # "wait" /\ kind # "retry"
    /\ sleep_for = 0 /\ retry_round = 0
    /\ Len(round_start) <= 1
    /\ (pc = "done" /\ \A i \in 1 .. Len(tickers) : FirstThrottled(i)) =>
         /\ \A i \in 1 .. Len(tickers) : Len(hist[i]) = 1
         /\ Cardinality(DOMAIN result.failed) = Len(tickers)
         /\ Cardinality(DOMAIN result.successful) = 0

\* a returned run with zero deadline whose two distinct tickers both
\* throttled and were force-failed after a slow initial round
C12_Witness ==
  /\ pc = "done"
  /\ max_total_time = 0
  /\ UniqueInput
  /\ Len(tickers) = 2
  /\ FirstThrottled(1) /\ FirstThrottled(2)
  /\ now - start_time > 0
  /\ Cardinality(DOMAIN result.failed) = 2

ThrottledThenReturned(i) ==
  /\ Len(hist[i]) >= 2
  /\ hist[i][1].kind = "raise"
  /\ Contains(hist[i][1].msg, "ThrottlingException")
  /\ hist[i][2].kind = "return"

\* C14 (as amended): when the run returns for distinct tickers, every item
\* whose first invocation raised a ThrottlingException and whose second
\* invocation returned is in successful and not in failed, total_rounds is
\* at least 2 and the initial round had ended before the deadline.
C14_RetryThenSucceedUnique ==
  (pc = "done" /\ UniqueInput) =>
    \A i \in 1 .. Len(tickers) :
      ThrottledThenReturned(i) =>
        /\ round_end[1].at < max_total_time
        /\ tickers[i] \in DOMAIN result.successful
        /\ tickers[i] \notin DOMAIN result.failed
        /\ result.retry_stats.total_rounds >= 2

\* C14 as stated: the same for any input list, repeated tickers included.
C14_RetryThenSucceedAnyInput ==
  pc = "done" =>
    \A i \in 1 .. Len(tickers) :
      ThrottledThenReturned(i) =>
        /\ round_end[1].at < max_total_time
        /\ tickers[i] \in DOMAIN result.successful
        /\ tickers[i] \notin DOMAIN result.failed
        /\ result.retry_stats.total_rounds >= 2

\* a returned run in which two distinct tickers both throttled first and
\* both returned on their second invocation
C14_Witness ==
  /\ pc = "done"
  /\ UniqueInput
  /\ Len(tickers) = 2
  /\ ThrottledThenReturned(1) /\ ThrottledThenReturned(2)
  /\ DOMAIN result.successful = { 1, 2 }

\* futures of the round in progress that have no disposition yet
Undisposed == { f \in 1 .. Len(disp) : disp[f] = <<>> }

\* C15: no future of a round gets two dispositions; during a round a future
\* has its disposition exactly when it has been collected, and every item
\* is in one place (counted, queued, or undisposed in the round); when a
\* round has returned every future has one disposition, no call was left
\* uncollected and every item is counted or queued.
C15_RoundGuarantee ==
  /\ \A f \in 1 .. Len(disp) :
       /\ Len(disp[f]) <= 1
       /\ disp[f] # <<>> => disp[f][1] \in { "success", "retry", "failed" }
  /\ kind # "none" =>
       /\ Len(disp) = Len(futs)
       /\ \A f \in 1 .. Len(futs) : (disp[f] # <<>>) <=> (futs[f].st = "collected")
       /\ completed_count + Len(retry_queue) + Cardinality(Undisposed) = total_tickers
  /\ kind = "none" => Undisposed = {}
  /\ \A k \in 1 .. Len(round_end) : round_end[k].pending = 0
  /\ pc \in { "loop", "timeout_check" } =>
       /\ Len(round_end) = Len(round_start)
       /\ completed_count + Len(retry_queue) = total_tickers

\* a retry round of two tasks has returned: one was queued again, the other
\* succeeded
C15_Witness ==
  /\ pc = "timeout_check"
  /\ Len(round_end) = 2
  /\ disp = << <<"retry">>, <<"success">> >>

\* C16 as stated: every record of the failed ledger carries an error
\* classification, a status and the message.
C16_FailedRecordClassified ==
  \A t \in DOMAIN failed :
    /\ { "status", "error", "error_type" } \subseteq DOMAIN failed[t]
    /\ failed[t].error_type \in Categories

\* C17 as stated: for every input list the returned value has the two maps,
\* the number of rounds and the elapsed time; for the empty list the maps
\* are empty and nothing was invoked.
C17_ResultShape ==
  pc = "done" =>
    /\ { "successful", "failed", "retry_stats" } \subseteq DOMAIN result
    /\ { "total_rounds", "total_time" } \subseteq DOMAIN result.retry_stats
    /\ tickers = <<>> =>
         /\ result.successful = EmptyDict
         /\ result.failed = EmptyDict
         /\ throttled = 0 /\ round_start = <<>>

\* a task waits in retry_queue for a retry (the force-fail step of the exit
\* leaves the tasks it has recorded in the list)
Waiting == retry_queue # <<>> /\ pc \notin { "finalize", "done" }

\* C19 (as amended): for an input list of distinct tickers is_complete is
\* true exactly when completed_count = total_tickers, false while a task
\* waits for a retry or a call of the round in progress has no disposition,
\* and true when the run has returned.
C19_IsCompleteUnique ==
  UniqueInput =>
    /\ is_complete <=> (completed_count = total_tickers)
    /\ (Waiting \/ (kind # "none" /\ Undisposed # {})) => ~is_complete
    /\ (pc = "done" /\ tickers # <<>>) => is_complete

\* C19 as stated: the same for any input list.
C19_IsCompleteAnyInput ==
  /\ is_complete <=> (completed_count = total_tickers)
  /\ (Waiting \/ (kind # "none" /\ Undisposed # {})) => ~is_complete
  /\ (pc = "done" /\ tickers # <<>>) => is_complete

\* the retry loop is left because the batch is complete while the deadline
\* has not passed
C19_Witness ==
  /\ pc = "finalize"
  /\ UniqueInput
  /\ Len(tickers) = 2
  /\ retry_round >= 1
  /\ is_complete
  /\ retry_queue = <<>>
  /\ now - start_time < max_total_time

\* C20: the number of calls running never exceeds the worker limit of the
\* round in progress, which is current_workers; no call runs outside a round.
C20_BoundedConcurrency ==
  /\ Cardinality(Running) <= workers
  /\ kind # "none" => (workers = current_workers /\ workers = Last(round_workers))
  /\ kind = "none" => Running = {}

\* a retry round limited to one worker in which one call runs and the other
\* waits in the executor's queue
C20_Witness ==
  /\ kind = "retry"
  /\ workers = 1
  /\ Cardinality(Running) = 1
  /\ Queued # {}

\* every task the orchestrator holds
HeldTasks ==
  { retry_queue[q] : q \in 1 .. Len(retry_queue) }
    \cup { ready_retries[q] : q \in 1 .. Len(ready_retries) }

\* C18: when every call returns or raises and the orchestrator keeps
\* running, the run returns, whatever the input, the outcomes and the
\* deadline; every retry round is given at least one task, no task is
\* queued with more than 3 attempts and no item is invoked more than 4 times.
C18_Termination ==
  /\ <>(pc = "done")
  /\ [](/\ kind = "retry" => Len(futs) >= 1
        /\ \A t \in HeldTasks : t.attempt <= AttemptLimit
        /\ \A i \in 1 .. Len(hist) : Len(hist[i]) <= AttemptLimit + 1)

\* a run without reachable deadline has returned after one item was
\* throttled on its first invocation and on each of its three retries
C18_Witness ==
  /\ pc = "done"
  /\ Unlimited
  /\ \E i \in 1 .. Len(hist) :
       /\ Len(hist[i]) = AttemptLimit + 1
       /\ \A k \in 1 .. Len(hist[i]) : IsThrottling(hist[i][k])

\* number of invocations of input position i that raised
RECURSIVE Failures(_)
Failures(h) ==
  IF h = <<>> THEN 0
  ELSE (IF Head(h).kind = "raise" THEN 1 ELSE 0) + Failures(Tail(h))

\* text of the most recent failure in h
RECURSIVE LastFailure(_)
LastFailure(h) ==
  IF h = <<>> THEN {}
  ELSE IF Last(h).kind = "raise" THEN Last(h).msg
  ELSE LastFailure(SubSeq(h, 1, Len(h) - 1))

\* C21 as stated: a collected invocation that failed with a throttling-
\* classified error is queued for retry, not recorded as failed, unless the
\* task had exhausted its 3 attempts; in the initial round always.
C21_RetryDispositionRule ==
  \A f \in 1 .. Len(futs) :
    (disp[f] # <<>> /\ IsThrottling(Last(hist[futs[f].item]))) =>
      IF kind = "initial" THEN disp[f] = <<"retry">>
      ELSE disp[f] = <<"failed">> => ready_retries[f].attempt >= AttemptLimit

\* C22 (as amended): every task in retry_queue has attempt equal to the
\* number of failed invocations of its item and last_error equal to the
\* text of the latest one; a task queued again in a retry round has both
\* updated, and a task resolved there (succeeded or failed for good) keeps
\* the attempt and last_error it was retried with.
C22_AttemptAccountingQueued ==
  /\ \A q \in 1 .. Len(retry_queue) :
       LET t == retry_queue[q] IN
         /\ t.attempt = Failures(hist[t.item])
         /\ t.attempt = Len(hist[t.item])
         /\ t.last_error = LastFailure(hist[t.item])
  /\ kind = "retry" =>
       \A f \in 1 .. Len(futs) :
         LET t == ready_retries[f]
             h == hist[t.item]
         IN /\ disp[f] = <<"retry">> =>
                 (t.attempt = Failures(h) /\ t.last_error = LastFailure(h))
            /\ disp[f] = <<"failed">> =>
                 (t.attempt = Failures(h) - 1
                  /\ t.last_error = LastFailure(SubSeq(h, 1, Len(h) - 1)))
            /\ disp[f] = <<"success">> =>
                 (t.attempt = Failures(h)
                  /\ t.last_error = LastFailure(h))

\* C22 as stated: at any time a task's attempt equals the number of failed
\* invocations of its item that have been handled, the failure that
\* resolves it in a retry round included, and last_error is the text of
\* the latest of them.
C22_AttemptAccountingAlways ==
  /\ \A q \in 1 .. Len(retry_queue) :
       LET t == retry_queue[q] IN
         /\ t.attempt = Failures(hist[t.item])
         /\ t.last_error = LastFailure(hist[t.item])
  /\ kind = "retry" =>
       \A f \in 1 .. Len(futs) :
         LET t == ready_retries[f]
             h == hist[t.item]
         IN disp[f] # <<>> =>
              (t.attempt = Failures(h) /\ t.last_error = LastFailure(h))

\* a retry round has queued one task again and resolved the other as failed
C22_Witness ==
  /\ kind = "retry"
  /\ Len(futs) = 2
  /\ \E f, g \in 1 .. 2 :
       /\ disp[f] = <<"retry">> /\ ready_retries[f].attempt = 2
       /\ disp[g] = <<"failed">> /\ ready_retries[g].attempt = 1

\* C23: a queued task has between 1 and 3 attempts, no item is invoked
\* more than 4 times, and an item whose 4 invocations all throttled is in
\* no queue: the round that ran the 4th records it as failed.
C23_AttemptCeiling ==
  /\ \A q \in 1 .. Len(retry_queue) :
       retry_queue[q].attempt >= 1 /\ retry_queue[q].attempt <= 3
  /\ \A i \in 1 .. Len(hist) :
       /\ Len(hist[i]) <= 4
       /\ (Len(hist[i]) = 4 /\ \A k \in 1 .. 4 : IsThrottling(hist[i][k])) =>
            /\ \A q \in 1 .. Len(retry_queue) : retry_queue[q].item # i
            /\ \A f \in 1 .. Len(futs) :
                 (futs[f].item = i /\ disp[f] # <<>>) => disp[f] = <<"failed">>
            /\ kind = "none" => tickers[i] \in DOMAIN failed

\* the third retry of a task raised a ThrottlingException again and the
\* round recorded the item as failed
C23_Witness ==
  /\ kind = "retry"
  /\ \E f \in 1 .. Len(futs) :
       /\ disp[f] = <<"failed">>
       /\ ready_retries[f].attempt = 3
       /\ Len(hist[futs[f].item]) = 4
       /\ \A k \in 1 .. 4 : IsThrottling(hist[futs[f].item][k])
       /\ tickers[futs[f].item] \in DOMAIN failed

\* C24 as stated: every round runs with strictly fewer workers than the
\* round before it.
C24_StrictlyLessConcurrency ==
  \A k \in 2 .. Len(round_workers) : round_workers[k] < round_workers[k - 1]

\* C24 (as amended): a round after one that ran with more than one worker
\* runs with strictly fewer; a round after one that ran with one worker
\* runs with one.
C24_LessConcurrencyDownToOne ==
  \A k \in 2 .. Len(round_workers) :
    IF round_workers[k - 1] > 1
      THEN round_workers[k] < round_workers[k - 1] /\ round_workers[k] >= 1
    ELSE round_workers[k] = 1

\* three rounds: 3 workers, then 1, then 1 again
C24_Witness ==
  /\ Len(round_workers) = 3
  /\ round_workers[1] = 3
  /\ round_workers[2] = 1
  /\ round_workers[3] = 1

\* C25 as stated: the orchestrator is never about to sleep for a retry
\* window (no queued task ready) when the elapsed time has reached
\* max_total_time.
C25_WaitEndsAtDeadline ==
  (pc = "wait" /\ ready_retries = <<>> /\ retry_queue # <<>>
     /\ SelectReady(retry_queue, now) = <<>>) =>
    now - start_time < max_total_time

\* C26: a step of the wait loop that lets time pass is taken only when no
\* queued task is ready and the queue is not empty; it lasts more than 0
\* and at most 10 seconds and ends no later than the earliest
\* next_retry_time of the queue.
C26_SleepBounds ==
  [][ (pc = "wait" /\ now' # now) =>
        LET g == get_ready_retries(retry_queue, now) IN
          /\ g.ready = <<>>
          /\ g.queue # <<>>
          /\ retry_queue' = retry_queue
          /\ now' - now > 0
          /\ now' - now <= SleepCap
          /\ now' <= NextRetry(g.queue)
          /\ sleep_for' = now' - now ]_vars

\* the last sleep before a retry window lasted 5 seconds and ended at the
\* earliest next_retry_time
C26_Witness ==
  /\ pc = "wait"
  /\ ready_retries = <<>>
  /\ retry_queue # <<>>
  /\ sleep_for = 5
  /\ now = NextRetry(retry_queue)

\* what the force-fail step has made of the queued task at position q
ForceFailed(q, ledger) ==
  LET t == retry_queue[q] IN
    /\ t.ticker \in DOMAIN ledger
    /\ ledger[t.ticker] = FailureRecord(t.ticker, MaxRetriesMessage(t.last_error))

\* C27 (as amended): for distinct tickers, a task the force-fail step has
\* not reached yet has no entry in either ledger; every task it has passed,
\* and at the return every task of retry_queue, has under its ticker the
\* failed record 'Max retries exceeded: <last_error>' and no entry in
\* successful.
C27_ForceResolutionUnique ==
  UniqueInput =>
    /\ pc = "finalize" =>
         \A q \in 1 .. Len(retry_queue) :
           IF q < fin_idx
             THEN /\ ForceFailed(q, failed)
                  /\ retry_queue[q].ticker \notin DOMAIN successful
           ELSE retry_queue[q].ticker \notin (DOMAIN failed) \cup (DOMAIN successful)
    /\ (pc = "done" /\ tickers # <<>>) =>
         \A q \in 1 .. Len(retry_queue) :
           /\ ForceFailed(q, result.failed)
           /\ retry_queue[q].ticker \notin DOMAIN result.successful

\* C27 as stated: the same for any input list.
C27_ForceResolutionAnyInput ==
  /\ pc = "finalize" =>
       \A q \in 1 .. Len(retry_queue) :
         IF q < fin_idx
           THEN /\ ForceFailed(q, failed)
                /\ retry_queue[q].ticker \notin DOMAIN successful
         ELSE retry_queue[q].ticker \notin (DOMAIN failed) \cup (DOMAIN successful)
  /\ (pc = "done" /\ tickers # <<>>) =>
       \A q \in 1 .. Len(retry_queue) :
         /\ ForceFailed(q, result.failed)
         /\ retry_queue[q].ticker \notin DOMAIN result.successful

\* a returned run that force-failed two tasks with different error texts
C27_Witness ==
  /\ pc = "done"
  /\ UniqueInput
  /\ Len(retry_queue) = 2
  /\ retry_queue[1].last_error # retry_queue[2].last_error
  /\ ForceFailed(1, result.failed) /\ ForceFailed(2, result.failed)

\* C28 as stated: when the loop was left at the deadline with tasks in the
\* queue, their failed records do not carry the 'Max retries exceeded'
\* message.
C28_DeadlineReason ==
  (pc = "done" /\ retry_queue # <<>> /\ now - start_time >= max_total_time) =>
    \A q \in 1 .. Len(retry_queue) :
      ~Contains(result.failed[retry_queue[q].ticker].error, "Max retries exceeded")

\* input position i has its ticker in a ledger
Recorded(i) == tickers[i] \in (DOMAIN successful) \cup (DOMAIN failed)

\* no other input position has the ticker of position i
OnlyOne(i) == \A j \in 1 .. Len(tickers) : j # i => tickers[j] # tickers[i]

TasksOf(q, i) == { k \in 1 .. Len(q) : q[k].item = i }

\* the ledger entries of one step's start are kept by the step, none of
\* them appears in the other ledger, no existing key is written again, and
\* an item whose ticker (given to no other item) is in a ledger is neither
\* invoked nor queued
Absorbing ==
  /\ \A t \in DOMAIN successful :
       /\ t \in DOMAIN successful' /\ successful'[t] = successful[t]
       /\ t \notin DOMAIN failed'
  /\ \A t \in DOMAIN failed :
       /\ t \in DOMAIN failed' /\ failed'[t] = failed[t]
       /\ t \notin DOMAIN successful'
  /\ completed_count' > completed_count =>
       Cardinality(DOMAIN successful') + Cardinality(DOMAIN failed')
         = Cardinality(DOMAIN successful) + Cardinality(DOMAIN failed) + 1
  /\ \A i \in 1 .. Len(tickers) :
       (Recorded(i) /\ OnlyOne(i)) =>
         /\ hist'[i] = hist[i]
         /\ \A f \in 1 .. Len(futs') : futs'[f].item = i => futs'[f].st = "collected"
         /\ Cardinality(TasksOf(retry_queue', i)) = Cardinality(TasksOf(retry_queue, i))

\* C29 (as amended): for distinct tickers, no step invokes an item that is
\* recorded in a ledger, queues a task for it, writes a ledger key that
\* exists, or changes or moves an existing ledger entry.
C29_TerminalAbsorbingUnique ==
  [][ UniqueInput => Absorbing ]_vars

\* C29 as stated: the same for any input list.
C29_TerminalAbsorbingAnyInput ==
  [][ Absorbing ]_vars

\* a retry round runs for the second ticker while the first, which
\* succeeded in the initial round, keeps its entry
C29_Witness ==
  /\ kind = "retry"
  /\ UniqueInput
  /\ Len(tickers) = 2
  /\ tickers[1] \in DOMAIN successful
  /\ Len(hist[1]) = 1
  /\ Len(hist[2]) = 3

\* input position i is unresolved in the current round: its call has no
\* disposition yet, or its task was taken from the queue for the round
\* about to be submitted, or the initial round is still to be submitted
InRound(i) ==
  \/ pc = "init"
  \/ kind # "none" /\ \E f \in 1 .. Len(futs) : futs[f].item = i /\ disp[f] = <<>>
  \/ pc = "wait" /\ TasksOf(ready_retries, i) # {}

Places(i) ==
  (IF InRound(i) THEN 1 ELSE 0)
    + Cardinality(TasksOf(retry_queue, i))
    + (IF tickers[i] \in DOMAIN successful THEN 1 ELSE 0)
    + (IF tickers[i] \in DOMAIN failed THEN 1 ELSE 0)

ledgerVars == << successful, failed, retry_queue, completed_count >>

\* one step is one add_success / add_permanent_failure / add_retry /
\* get_ready_retries, told by its effect on the batch state
AddSuccessStep ==
  /\ \E t \in DOMAIN successful' : successful' = Put(successful, t, successful'[t])
  /\ completed_count' = completed_count + 1
  /\ UNCHANGED << failed, retry_queue >>

AddFailureStep ==
  /\ \E t \in DOMAIN failed' : failed' = Put(failed, t, failed'[t])
  /\ completed_count' = completed_count + 1
  /\ UNCHANGED << successful, retry_queue >>

AddRetryStep ==
  /\ Len(retry_queue') = Len(retry_queue) + 1
  /\ SubSeq(retry_queue', 1, Len(retry_queue)) = retry_queue
  /\ UNCHANGED << successful, failed, completed_count >>

GetReadyStep ==
  /\ ready_retries = <<>> /\ ready_retries' # <<>>
  /\ Len(retry_queue') + Len(ready_retries') = Len(retry_queue)
  /\ UNCHANGED << successful, failed, completed_count >>

\* the update that gives a result the disposition d
UpdateFor(d) ==
  CASE d = "success" -> AddSuccessStep
    [] d = "retry" -> AddRetryStep
    [] d = "failed" -> AddFailureStep
    [] OTHER -> FALSE

\* C31: a step that changes the batch state is a step of the orchestrator
\* thread; it applies one update: the one for the single result it
\* collects, one get_ready_retries of the wait loop, or one
\* add_permanent_failure of the exit; no call finishes or starts and no
\* time passes within it; hence while calls run in parallel the counts of
\* the batch state add up after every update.
C31_SerializedUpdates ==
  /\ [][ ledgerVars' # ledgerVars =>
          /\ hist' = hist /\ now' = now
          /\ Len(futs') = Len(futs)
          /\ \A f \in 1 .. Len(futs) :
               (futs[f].st = "running") <=> (futs'[f].st = "running")
          /\ CASE pc = "collect" ->
                    \E f \in 1 .. Len(futs) :
                      /\ disp[f] = <<>> /\ Len(disp'[f]) = 1
                      /\ \A g \in 1 .. Len(futs) : g # f => disp'[g] = disp[g]
                      /\ UpdateFor(disp'[f][1])
               [] pc = "wait" -> GetReadyStep
               [] pc = "finalize" -> AddFailureStep /\ fin_idx' = fin_idx + 1
               [] OTHER -> FALSE ]_vars
  /\ [](Running # {} =>
          completed_count + Len(retry_queue) + Cardinality(Undisposed) = total_tickers)

\* two calls were started side by side; the result of the one that finished
\* has been queued for retry while the other still runs
C31_Witness ==
  /\ kind = "initial"
  /\ workers >= 2
  /\ Len(futs) = 2
  /\ \E f, g \in 1 .. 2 :
       /\ disp[f] = <<"retry">>
       /\ futs[g].st = "running"
  /\ Len(retry_queue) = 1

\* C32: at most one round is in progress at any time and a round begins
\* only after the round before it has returned; when a call of a retry
\* round runs or has run, the initial round has returned with no call left
\* uncollected, every input item was invoked, and every input item had been
\* given a disposition (recorded in a ledger, or a task made for it).
C32_RoundOrdering ==
  /\ (kind # "none") <=> (Len(round_start) = Len(round_end) + 1)
  /\ (kind = "none") <=> (Len(round_start) = Len(round_end))
  /\ kind = "initial" => (Len(round_start) = 1 /\ \A i \in 1 .. Len(hist) : Len(hist[i]) <= 1)
  /\ \A k \in 1 .. Len(round_end) : round_start[k] <= round_end[k].at
  /\ \A k \in 2 .. Len(round_start) : round_end[k - 1].at <= round_start[k]
  /\ (kind = "retry" \/ \E i \in 1 .. Len(hist) : Len(hist[i]) >= 2) =>
       /\ Len(round_end) >= 1
       /\ round_end[1].pending = 0
       /\ \A i \in 1 .. Len(tickers) :
            /\ Len(hist[i]) >= 1
            /\ \/ Recorded(i)
               \/ TasksOf(retry_queue, i) # {}
               \/ TasksOf(ready_retries, i) # {}

\* a call of the first retry round runs for the second item; the first
\* item was recorded as failed by the initial round
C32_Witness ==
  /\ kind = "retry"
  /\ Len(round_start) = 2
  /\ Len(tickers) = 2
  /\ hist[1] = << Raised({"Invalid"}) >>
  /\ tickers[1] \in DOMAIN failed
  /\ Len(hist[2]) = 1
  /\ \E f \in 1 .. Len(futs) : futs[f].item = 2 /\ futs[f].st = "running"

\* the orchestrator records the result of future f in this step
CollectedNow(f) ==
  /\ pc = "collect" /\ pc' = "collect"
  /\ futs[f].st = "finished"
  /\ futs'[f].st = "collected"

\* C33 as stated: the result recorded next is that of the call that
\* finished first among the calls of the round not yet recorded.
C33_FinishOrder ==
  [][ \A f \in 1 .. Len(futs) : CollectedNow(f) => f = Head(fin_order) ]_vars

\* C33 (as amended): the calls that had finished when the collection loop
\* began are recorded first, in no particular order; the others are
\* recorded after them, in the order in which they finish.
C33_FinishOrderAfterCollectionBegan ==
  /\ [][ \A f \in 1 .. Len(futs) :
            CollectedNow(f) =>
              IF asc_early # {} THEN f \in asc_early ELSE f = Head(fin_order) ]_vars
  /\ [](pc = "collect" =>
          /\ \A k \in 1 .. Len(fin_order) : futs[fin_order[k]].st = "finished"
          /\ \A f \in 1 .. Len(futs) :
               futs[f].st = "finished" => \E k \in 1 .. Len(fin_order) : fin_order[k] = f
          /\ \A k, m \in 1 .. Len(fin_order) :
               (fin_order[k] \notin asc_early /\ fin_order[m] \in asc_early) => m < k)

\* the call submitted second finished first and its result has been
\* recorded; the call submitted first finished after the collection loop
\* began and is the next to be recorded
C33_Witness ==
  /\ pc = "collect"
  /\ Len(futs) = 2
  /\ asc_early = {}
  /\ fin_order = << 1 >>
  /\ futs[2].st = "collected"
  /\ asc_order = << 1 >>

\* the task is ready at the current clock value
ReadyNow(t) == t.next_retry_time <= now

NotReadyNow(t) == t.next_retry_time > now

\* C34: a call of get_ready_retries returns the queued tasks with
\* next_retry_time <= now, in queue order and each once, and leaves in
\* retry_queue the other tasks in their order; it returns no task that an
\* earlier call returned and that was not queued again, and such a task is
\* not in retry_queue.
C34_ReadyExtraction ==
  /\ [][ QueueGetReady =>
          /\ ready_retries' = SelectSeq(retry_queue, ReadyNow)
          /\ retry_queue' = SelectSeq(retry_queue, NotReadyNow)
          /\ \A k \in 1 .. Len(ready_retries') : ready_retries'[k].item \notin u_held
          /\ \A k, m \in 1 .. Len(ready_retries') :
               k # m => ready_retries'[k].item # ready_retries'[m].item ]_vars
  /\ [](/\ \A k \in 1 .. Len(retry_queue) : retry_queue[k].item \notin u_held
        /\ \A k, m \in 1 .. Len(retry_queue) :
             k # m => retry_queue[k].item # retry_queue[m].item)

\* three tasks were returned and queued again; the call made when the
\* second one's retry time came returned it alone (a task returned for the
\* second time) and left the first and the third in the queue, in order
C34_Witness ==
  /\ u_op = "get_ready"
  /\ Len(ready_retries) = 1
  /\ ready_retries[1].item = 2
  /\ ready_retries[1].attempt = 1
  /\ Len(retry_queue) = 2
  /\ retry_queue[1].item = 1
  /\ retry_queue[2].item = 3

\* clock value at which the round in progress was formed
RoundFormed == start_time + Last(round_start)

\* C35: a task is queued with a next_retry_time at least 15 seconds after
\* the moment its failure is recorded; a retry round has one call for each
\* task that get_ready_retries returned, every one of them with its
\* next_retry_time reached when the round was formed; the tasks left in
\* the queue were not ready then (or were queued again by this round), are
\* not among its pending calls and have not been invoked since they were
\* queued.
C35_BackoffRespected ==
  /\ [][ Len(retry_queue') = Len(retry_queue) + 1 =>
            Last(retry_queue').next_retry_time >= now + 15 ]_vars
  /\ []((pc = "wait" /\ ready_retries # <<>>) =>
          /\ \A f \in 1 .. Len(ready_retries) : ready_retries[f].next_retry_time <= now
          /\ \A q \in 1 .. Len(retry_queue) : retry_queue[q].next_retry_time > now)
  /\ [](kind = "retry" =>
          /\ Len(futs) = Len(ready_retries)
          /\ RoundFormed <= now
          /\ \A f \in 1 .. Len(futs) :
               /\ futs[f].item = ready_retries[f].item
               /\ disp[f] # <<"retry">> => ready_retries[f].next_retry_time <= RoundFormed
               /\ disp[f] = <<"retry">> => ready_retries[f].next_retry_time >= RoundFormed + 15
          /\ \A q \in 1 .. Len(retry_queue) :
               /\ retry_queue[q].next_retry_time > RoundFormed
               /\ Len(hist[retry_queue[q].item]) = retry_queue[q].attempt
               /\ \A f \in 1 .. Len(futs) :
                    disp[f] = <<>> => futs[f].item # retry_queue[q].item)

\* a retry round formed when one of two queued tasks was ready: its call
\* runs while the other task, not ready yet, stays in the queue
C35_Witness ==
  /\ kind = "retry"
  /\ Len(futs) = 1
  /\ futs[1].st = "running"
  /\ Len(retry_queue) = 1
  /\ retry_queue[1].next_retry_time > now
  /\ retry_queue[1].attempt = 1
  /\ Len(hist[retry_queue[1].item]) = 1

\* C36: every call of analyze_ticker_safe gives a result for its ticker:
\* status success when graph.propagate returned; when it raised, status
\* error, the exception's text as error, error_type the category that
\* classify_error gives for that text, and retryable true exactly when
\* that category is throttling, that is when the text has a throttling
\* keyword in any letter case.
C36_SafeAnalysis ==
  u_op = "analyze" =>
    LET o == u_call.outcome IN
      /\ u_result.ticker = u_call.ticker
      /\ u_result.status \in { "success", "error" }
      /\ o.kind = "return" => u_result.status = "success"
      /\ o.kind = "raise" =>
           /\ u_result.status = "error"
           /\ u_result.error = o.msg
           /\ u_result.error_type \in Categories
           /\ u_result.error_type = classify_error(u_result.error)
           /\ u_result.retryable <=> (u_result.error_type = "throttling")
           /\ u_result.retryable <=> (1 \in Matching(o.msg))

\* an exception whose text has a mixed-case throttling keyword next to a
\* network keyword gave a retryable error result
C36_Witness ==
  /\ u_op = "analyze"
  /\ u_call.outcome.kind = "raise"
  /\ "Too many tokens" \in u_call.outcome.msg
  /\ "timeout" \in u_call.outcome.msg
  /\ "ThrottlingException" \notin u_call.outcome.msg
  /\ u_result.status = "error"
  /\ u_result.retryable

\* C37: a step taken while a round is in progress (its submissions, the
\* calls' completions, the collection of results and the return of the
\* round function) leaves the round's worker limit, current_workers,
\* total_tickers and retry_round unchanged; current_workers changes only in
\* the orchestrator's step between two rounds that forms the next round.
C37_WorkersFixedInRound ==
  [][ /\ kind # "none" =>
           /\ current_workers' = current_workers
           /\ total_tickers' = total_tickers
           /\ retry_round' = retry_round
           /\ kind' # "none" => workers' = workers
      /\ current_workers' # current_workers =>
           /\ kind = "none" /\ kind' # "none"
           /\ pc \in { "init", "wait" }
           /\ Running = {} ]_vars

\* the first retry round runs with half the configured workers and has
\* recorded one of its two results while the other call still runs
C37_Witness ==
  /\ kind = "retry"
  /\ retry_round = 1
  /\ max_workers = 4
  /\ current_workers = 2 /\ workers = 2
  /\ \E f, g \in 1 .. Len(futs) : disp[f] # <<>> /\ futs[g].st = "running"

\* the call of future f has not finished yet
InFlight(f) == futs[f].st \in { "new", "queued", "running" }

\* C38: whatever max_total_time is, a submitted call is never dropped: it
\* stays in its round until it runs, a running call runs until it returns
\* or raises, and its outcome is the next entry of its item's history; a
\* round returns with no call uncollected, so once the initial round has
\* returned, and when the run returns, every input item has been invoked.
C38_DeadlineSparesCalls ==
  /\ [][ \A f \in 1 .. Len(futs) :
            InFlight(f) =>
              /\ Len(futs') = Len(futs)
              /\ futs'[f].item = futs[f].item
              /\ futs[f].st = "new" => futs'[f].st \in { "new", "queued", "running" }
              /\ futs[f].st = "queued" => futs'[f].st \in { "queued", "running" }
              /\ futs[f].st = "running" => futs'[f].st \in { "running", "finished" }
              /\ (futs[f].st = "running" /\ futs'[f].st = "finished") =>
                   Len(hist'[futs[f].item]) = Len(hist[futs[f].item]) + 1 ]_vars
  /\ [](/\ \A k \in 1 .. Len(round_end) : round_end[k].pending = 0
        /\ (Len(round_end) >= 1 \/ pc = "done") =>
             \A i \in 1 .. Len(tickers) : Len(hist[i]) >= 1)

\* with max_total_time = 0 and one worker, the deadline has passed while
\* the first call ran; the second call, invoked after that, runs
C38_Witness ==
  /\ kind = "initial"
  /\ max_total_time = 0
  /\ workers = 1
  /\ now - start_time > max_total_time
  /\ Len(futs) = 2
  /\ futs[1].st \in { "finished", "collected" }
  /\ futs[2].st = "running"

\* C39: the round counter is incremented only on entering the retry loop
\* with a non-empty queue, and the wait that follows always ends by
\* starting one retry round over at least one task; so outside the wait
\* the counter plus one is the number of rounds started, and the
\* total_rounds returned for a non-empty input is the number of rounds run.
C39_RoundCounting ==
  /\ [][ /\ retry_round' # retry_round =>
              /\ retry_round' = retry_round + 1
              /\ tickers # <<>> =>
                   (pc = "loop" /\ pc' = "wait" /\ retry_queue # <<>>)
         /\ (pc = "wait" /\ pc' # "wait") =>
              /\ kind' = "retry"
              /\ Len(futs') >= 1
              /\ Len(round_start') = Len(round_start) + 1 ]_vars
  /\ [](tickers = <<>> \/
          (/\ pc = "wait" =>
                /\ retry_round = Len(round_start)
                /\ retry_queue # <<>> \/ ready_retries # <<>>
           /\ pc \notin { "init", "wait" } => retry_round + 1 = Len(round_start)
           /\ Len(round_end) <= Len(round_start)
           /\ kind = "retry" => Len(futs) >= 1
           /\ pc = "done" =>
                /\ result.retry_stats.total_rounds = Len(round_start)
                /\ result.retry_stats.total_rounds = Len(round_end)))

\* a run that returned total_rounds = 3 after the initial round and two
\* retry rounds, the loop having been left at the deadline
C39_Witness ==
  /\ pc = "done"
  /\ tickers # <<>>
  /\ result.retry_stats.total_rounds = 3
  /\ Len(round_end) = 3
  /\ retry_round = 2
  /\ now - start_time > max_total_time

====
